---- MODULE Spec2Model ----
(***************************************************************************)
(* The daily-dragon OpenAI API service: two authenticated HTTP endpoints   *)
(* that fill a prompt template, call the completion provider once and      *)
(* return the provider's message content.                                  *)
(*                                                                         *)
(* Text is modelled as a sequence of one-character strings, so that        *)
(* str.replace, str.join, str.rstrip and the f-string of the numbered      *)
(* block are computed character by character, as Python computes them.     *)
(* An optional value (Python's None or a value) is a sequence of length    *)
(* 0 or 1.                                                                 *)
(*                                                                         *)
(* reqs holds the requests; wire holds a value of one of the pydantic      *)
(* models on its way through model_dump_json and model_validate_json.      *)
(***************************************************************************)
EXTENDS Integers, Sequences, FiniteSets, TLC

VARIABLES reqs, wire

vars == <<reqs, wire>>

(***************************************************************************)
(* Bounds of the model.                                                    *)
(***************************************************************************)
MaxWords == 2

MaxItems == 2

MaxTplPieces == 2

MaxChoices == 2

(***************************************************************************)
(* Module constants of openai_service.py.                                  *)
(***************************************************************************)
MODEL_NAME == "gpt-4o-2024-08-06"

\* The paths of the two @app.post routes.
SENTENCES_PATH == "/daily-dragon/practice/sentences"

EVALUATE_PATH == "/daily-dragon/practice/evaluate-translations"

\* The names of the two prompt files under PROMPTS_DIR.
SENTENCES_PROMPT_FILE == "get_sentences_for_translation"

EVALUATE_PROMPT_FILE == "evaluate_translations"

TARGET_LANGUAGE == <<"E", "n", "g", "l", "i", "s", "h">>

N == 5

(***************************************************************************)
(* The placeholder tokens and literal text of the service.                 *)
(***************************************************************************)
PH_WORDS == <<"$", "{", "w", "o", "r", "d", "s", "}">>

PH_N == <<"$", "{", "n", "}">>

PH_LANG == <<"$", "{", "t", "a", "r", "g", "e", "t", "L", "a", "n", "g", "u", "a", "g", "e", "}">>

COMMA_SPACE == <<",", " ">>

NEWLINE == <<"\n">>

SENTENCE_LABEL == <<".", " ", "S", "e", "n", "t", "e", "n", "c", "e", ":", " ", "\"">>

USER_TRANSLATION_LABEL == <<"U", "s", "e", "r", " ", "T", "r", "a", "n", "s", "l", "a", "t", "i", "o", "n", ":", " ", "\"">>

TARGET_WORD_LABEL == <<"T", "a", "r", "g", "e", "t", " ", "W", "o", "r", "d", ":", " ", "\"">>

QUOTE_NEWLINE == <<"\"", "\n">>

(***************************************************************************)
(* Python's string operations.                                             *)
(***************************************************************************)
Digit(d) ==
    CASE d = 0 -> "0" [] d = 1 -> "1" [] d = 2 -> "2" [] d = 3 -> "3"
      [] d = 4 -> "4" [] d = 5 -> "5" [] d = 6 -> "6" [] d = 7 -> "7"
      [] d = 8 -> "8" [] d = 9 -> "9"

\* str(n) for n >= 0: the decimal digits, most significant first.
RECURSIVE Str(_)
Str(n) ==
    IF n < 10 THEN <<Digit(n)>> ELSE Str(n \div 10) \o <<Digit(n % 10)>>

\* sep.join(xs)
RECURSIVE Join(_, _)
Join(sep, xs) ==
    IF Len(xs) = 0 THEN <<>>
    ELSE IF Len(xs) = 1 THEN xs[1]
    ELSE xs[1] \o sep \o Join(sep, Tail(xs))

\* s.replace(old, new), old non-empty: one left-to-right pass over s that
\* replaces each non-overlapping occurrence of old; the text put in is not
\* scanned again.
RECURSIVE Replace(_, _, _)
Replace(s, old, new) ==
    IF Len(s) < Len(old) THEN s
    ELSE IF SubSeq(s, 1, Len(old)) = old
         THEN new \o Replace(SubSeq(s, Len(old) + 1, Len(s)), old, new)
         ELSE <<Head(s)>> \o Replace(Tail(s), old, new)

Whitespace == {" ", "\n", "\t", "\r"}

\* s.rstrip(): s without its trailing whitespace.
RECURSIVE Rstrip(_)
Rstrip(s) ==
    IF Len(s) > 0 /\ s[Len(s)] \in Whitespace
    THEN Rstrip(SubSeq(s, 1, Len(s) - 1))
    ELSE s

(***************************************************************************)
(* openai_service.py: the prompt of each pipeline and the value that       *)
(* send_prompt returns.                                                    *)
(***************************************************************************)
\* Mutant of get_sentences_for_translation: the slice words[:-1] is joined,
\* so the last word is left out.
get_sentences_without_last_word(prompt_template, words) ==
    LET shown == SubSeq(words, 1, Len(words) - 1)
        p1 == Replace(prompt_template, PH_WORDS, Join(COMMA_SPACE, shown))
        p2 == Replace(p1, PH_N, Str(N))
    IN  Replace(p2, PH_LANG, TARGET_LANGUAGE)

\* Mutant of get_sentences_for_translation: the third replacement is
\* forgotten.
get_sentences_without_language(prompt_template, words) ==
    LET p1 == Replace(prompt_template, PH_WORDS, Join(COMMA_SPACE, words))
    IN  Replace(p1, PH_N, Str(N))

\* Mutant of get_sentences_for_translation: a word that repeats the word
\* before it is dropped.
RECURSIVE Dedup(_)
Dedup(xs) ==
    IF Len(xs) <= 1 THEN xs
    ELSE IF xs[1] = xs[2] THEN Dedup(Tail(xs))
    ELSE <<xs[1]>> \o Dedup(Tail(xs))

get_sentences_dedup(prompt_template, words) ==
    LET p1 == Replace(prompt_template, PH_WORDS, Join(COMMA_SPACE, Dedup(words)))
        p2 == Replace(p1, PH_N, Str(N))
    IN  Replace(p2, PH_LANG, TARGET_LANGUAGE)

\* The prompt get_sentences_for_translation builds: three replacements, one
\* after the other, each over the result of the one before.
get_sentences_for_translation(prompt_template, words) ==
    LET p1 == Replace(prompt_template, PH_WORDS, Join(COMMA_SPACE, words))
        p2 == Replace(p1, PH_N, Str(N))
    IN  Replace(p2, PH_LANG, TARGET_LANGUAGE)

\* Mutant of ItemBlock: enumerate's index is printed as it is, so the
\* numbering starts at 0.
ItemBlockZeroBased(i, item) ==
    Str(i) \o SENTENCE_LABEL \o item.sentence \o QUOTE_NEWLINE
      \o USER_TRANSLATION_LABEL \o item.translation \o QUOTE_NEWLINE
      \o TARGET_WORD_LABEL \o item.word \o QUOTE_NEWLINE

\* Mutant of ItemBlock: the index printed is one ahead of the item's rank.
ItemBlockOneAhead(i, item) ==
    Str(i + 2) \o SENTENCE_LABEL \o item.sentence \o QUOTE_NEWLINE
      \o USER_TRANSLATION_LABEL \o item.translation \o QUOTE_NEWLINE
      \o TARGET_WORD_LABEL \o item.word \o QUOTE_NEWLINE

\* One element of the generator in evaluate_translations; i is enumerate's
\* zero-based index.
ItemBlock(i, item) ==
    Str(i + 1) \o SENTENCE_LABEL \o item.sentence \o QUOTE_NEWLINE
      \o USER_TRANSLATION_LABEL \o item.translation \o QUOTE_NEWLINE
      \o TARGET_WORD_LABEL \o item.word \o QUOTE_NEWLINE

ItemBlocks(translations) ==
    [k \in 1..Len(translations) |-> ItemBlock(k - 1, translations[k])]

items_text(translations) == Join(NEWLINE, ItemBlocks(translations))

\* Mutant of evaluate_translations: the template is not trimmed and a
\* newline is put between it and the items.
evaluate_translations_untrimmed(prompt_template, translations) ==
    prompt_template \o NEWLINE \o items_text(translations)

\* The prompt evaluate_translations builds.
evaluate_translations(prompt_template, translations) ==
    Rstrip(prompt_template) \o items_text(translations)

\* Mutant of send_prompt: it reads the last choice instead of the first.
send_prompt_last_choice(reply) ==
    IF reply.kind = "raise" \/ Len(reply.choices) = 0
    THEN [raised |-> TRUE, value |-> <<>>]
    ELSE [raised |-> FALSE, value |-> reply.choices[Len(reply.choices)]]

\* What send_prompt does with the outcome of client.chat.completions.parse:
\* an exception of the call propagates, response.choices[0] of an empty list
\* raises IndexError, otherwise the first choice's message content (a string
\* or None) is returned as it is.
send_prompt(reply) ==
    IF reply.kind = "raise" \/ Len(reply.choices) = 0
    THEN [raised |-> TRUE, value |-> <<>>]
    ELSE [raised |-> FALSE, value |-> reply.choices[1]]

\* Mutant of ParseCall: a system message is put before the user message.
ParseCallWithSystemMessage(prompt, response_model) ==
    [model |-> MODEL_NAME,
     messages |-> <<[role |-> "system", content |-> <<>>],
                    [role |-> "user", content |-> prompt]>>,
     response_format |-> response_model]

\* The arguments of the one provider call send_prompt makes.
ParseCall(prompt, response_model) ==
    [model |-> MODEL_NAME,
     messages |-> <<[role |-> "user", content |-> prompt]>>,
     response_format |-> response_model]

(***************************************************************************)
(* openai_api_app.py: the request models.  A JSON value of a body is       *)
(* tagged with what it is: a field is "str", "nonstr" or "absent"; the     *)
(* list field of a body is "list", "nonlist" or "absent".                  *)
(***************************************************************************)
StrField(s) == [tag |-> "str", s |-> s]

AbsentField == [tag |-> "absent", s |-> <<>>]

NonStrField == [tag |-> "nonstr", s |-> <<>>]

NoBody == [tag |-> "absent", items |-> <<>>]

\* Mutant of WordsList: the list must hold at least one word.
WordsListNonEmpty(body) ==
    /\ body.tag = "list"
    /\ Len(body.items) >= 1
    /\ \A i \in 1..Len(body.items) : body.items[i].tag = "str"

\* WordsList: words: list[str]
WordsList(body) ==
    /\ body.tag = "list"
    /\ \A i \in 1..Len(body.items) : body.items[i].tag = "str"

\* TranslationItem: word: str, sentence: str, translation: str
TranslationItem(item) ==
    /\ item.word.tag = "str"
    /\ item.sentence.tag = "str"
    /\ item.translation.tag = "str"

\* Mutant of SentenceTranslationsToEvaluate: translations declared as a bare
\* list, its elements not validated.
TranslationsUnchecked(body) == body.tag = "list"

\* SentenceTranslationsToEvaluate: translations: list[TranslationItem]
SentenceTranslationsToEvaluate(body) ==
    /\ body.tag = "list"
    /\ \A i \in 1..Len(body.items) : TranslationItem(body.items[i])

BodyValid(endpoint, body) ==
    IF endpoint = "sentences" THEN WordsList(body)
    ELSE SentenceTranslationsToEvaluate(body)

\* words_list.words of a validated body
WordsOf(body) == [i \in 1..Len(body.items) |-> body.items[i].s]

\* translations.translations of a validated body
TranslationsOf(body) ==
    [i \in 1..Len(body.items) |->
        [word |-> body.items[i].word.s,
         sentence |-> body.items[i].sentence.s,
         translation |-> body.items[i].translation.s]]

(***************************************************************************)
(* A request.                                                              *)
(***************************************************************************)
\* The fields of the decoded identity token.
TokenFields ==
    {"aud", "auth_time", "cognito_username", "email", "email_verified",
     "event_id", "exp", "iat", "iss", "jti", "origin_jti", "sub", "token_use"}

\* The name of a field in the token's payload: cognito_username is read
\* from the claim cognito:username.
ClaimName(field) ==
    IF field = "cognito_username" THEN "cognito:username" ELSE field

\* A payload without claims.
NoClaims == [name \in {} |-> <<>>]

\* Mutant of DailyDragonCognitoToken: email_verified has no default.
DailyDragonCognitoTokenNoDefault(payload) ==
    [field \in TokenFields |->
        IF ClaimName(field) \in DOMAIN payload
        THEN <<payload[ClaimName(field)]>>
        ELSE <<>>]

\* DailyDragonCognitoToken built from a payload: every field is optional
\* and None when its claim is not supplied, except email_verified, which
\* is False then.
DailyDragonCognitoToken(payload) ==
    [field \in TokenFields |->
        IF ClaimName(field) \in DOMAIN payload
        THEN <<payload[ClaimName(field)]>>
        ELSE IF field = "email_verified" THEN <<FALSE>>
        ELSE <<>>]

Requests == DOMAIN reqs

Idle ==
    [pc |-> "idle", method |-> "none", path |-> "none", endpoint |-> "none",
     token |-> "none", claims |-> NoClaims, auth |-> <<>>, body |-> NoBody,
     reads |-> 0, prompt_file |-> "none",
     template |-> <<>>, sent |-> <<>>, reply |-> <<>>, status |-> "none",
     payload |-> <<>>]

\* Mutant of Propagate: the failed request is run again.
RetryAfterError(q) == [q EXCEPT !.pc = "validated"]

\* Mutant of Propagate: the exception is swallowed and the request succeeds
\* with nothing.
SwallowError(q) ==
    [q EXCEPT !.pc = "done", !.status = "ok", !.payload = <<>>]

\* Mutant of Propagate: after an error the request is left waiting for the
\* provider instead of ending.
WaitAfterError(q) == [q EXCEPT !.pc = "awaiting_provider"]

\* An exception that leaves the endpoint function: nothing in
\* openai_service.py or openai_api_app.py catches it, and the request ends
\* as a server error without a body of the service's.
Propagate(q) ==
    [q EXCEPT !.pc = "done", !.status = "server_error", !.payload = <<>>]

\* Mutant of EndpointRuns: the route declares no auth dependency and no
\* validated body, so the function runs on the request as received.
EndpointRunsUnguarded(q) == q.pc \in {"received", "validated"}

\* An endpoint function runs once its parameters are resolved: the body
\* parameter, validated against its model, and the
\* Depends(cognito_auth.auth_required) one.
EndpointRuns(q) == q.pc = "validated"

(***************************************************************************)
(* The steps of a request.                                                 *)
(***************************************************************************)
\* A POST to one of the two routes arrives.
Receive(r, endpoint, token, body) ==
    /\ reqs[r].pc = "idle"
    /\ reqs' = [reqs EXCEPT ![r] =
                  [@ EXCEPT !.pc = "received", !.endpoint = endpoint,
                            !.token = token, !.body = body]]

\* Mutant of Route: the routes are registered without the /daily-dragon
\* prefix.
RouteWithoutPrefix(method, path) ==
    IF path \notin {"/practice/sentences", "/practice/evaluate-translations"}
    THEN "not_found"
    ELSE IF method # "POST" THEN "method_not_allowed"
    ELSE IF path = "/practice/sentences" THEN "sentences"
    ELSE "evaluate"

\* The route a request is dispatched to: the two paths are registered with
\* @app.post, any other path is not found, and another method on a
\* registered path is not allowed.
Route(method, path) ==
    IF path \notin {SENTENCES_PATH, EVALUATE_PATH} THEN "not_found"
    ELSE IF method # "POST" THEN "method_not_allowed"
    ELSE IF path = SENTENCES_PATH THEN "sentences"
    ELSE "evaluate"

\* An HTTP request arrives and is routed by its method and path; a request
\* that matches no route ends there, before the Auth Gate.
Dispatch(r, method, path, token, body) ==
    LET q == [reqs[r] EXCEPT !.method = method, !.path = path,
                             !.token = token, !.body = body]
        route == Route(method, path)
    IN
    /\ reqs[r].pc = "idle"
    /\ reqs' = [reqs EXCEPT ![r] =
                  IF route \in {"not_found", "method_not_allowed"}
                  THEN [q EXCEPT !.pc = "done", !.status = route]
                  ELSE [q EXCEPT !.pc = "received", !.endpoint = route]]

\* The Auth Gate: the dependency of both routes.  It raises for a token that
\* is missing, invalid or expired, and the request ends there; for a valid
\* token it yields the claims decoded from the token's payload.
auth_required(r) ==
    LET q == reqs[r] IN
    /\ q.pc = "received"
    /\ reqs' = [reqs EXCEPT ![r] =
                  IF q.token = "valid"
                  THEN [q EXCEPT !.pc = "authenticated",
                                 !.auth = <<DailyDragonCognitoToken(q.claims)>>]
                  ELSE [q EXCEPT !.pc = "done", !.status = "auth_error"]]

\* The body parameter is validated against the route's request model.
validate_body(r) ==
    LET q == reqs[r] IN
    /\ q.pc = "authenticated"
    /\ reqs' = [reqs EXCEPT ![r] =
                  IF BodyValid(q.endpoint, q.body)
                  THEN [q EXCEPT !.pc = "validated"]
                  ELSE [q EXCEPT !.pc = "done", !.status = "validation_error"]]

\* Mutant of CallService: a missing prompt file is taken for an empty
\* template and the provider is called all the same.
CallServiceDefaultTemplate(q, name, file, prompt, response_model) ==
    [q EXCEPT !.reads = @ + 1,
              !.prompt_file = name,
              !.template = IF file.found THEN <<file.text>> ELSE <<>>,
              !.sent = Append(@, ParseCall(prompt, response_model)),
              !.pc = "awaiting_provider"]

\* The service function up to the provider call: it reads the prompt file
\* (read_text raises when the file is missing), builds the prompt and calls
\* client.chat.completions.parse.
CallService(q, name, file, prompt, response_model) ==
    IF ~file.found
    THEN Propagate([q EXCEPT !.reads = @ + 1, !.prompt_file = name])
    ELSE [q EXCEPT !.reads = @ + 1,
                   !.prompt_file = name,
                   !.template = <<file.text>>,
                   !.sent = Append(@, ParseCall(prompt, response_model)),
                   !.pc = "awaiting_provider"]

\* Mutant of evaluate_translations_endpoint: the route calls the service
\* function of the other pipeline.
evaluate_translations_endpoint_crossed(r, file) ==
    LET q == reqs[r] IN
    /\ EndpointRuns(q)
    /\ q.endpoint = "evaluate"
    /\ reqs' = [reqs EXCEPT ![r] =
                  CallService(q, SENTENCES_PROMPT_FILE, file,
                      get_sentences_for_translation(file.text, <<>>),
                      "SentencesResponse")]

\* POST /daily-dragon/practice/sentences
create_practice_sentences(r, file) ==
    LET q == reqs[r] IN
    /\ EndpointRuns(q)
    /\ q.endpoint = "sentences"
    /\ reqs' = [reqs EXCEPT ![r] =
                  CallService(q, SENTENCES_PROMPT_FILE, file,
                      get_sentences_for_translation(file.text, WordsOf(q.body)),
                      "SentencesResponse")]

\* POST /daily-dragon/practice/evaluate-translations
evaluate_translations_endpoint(r, file) ==
    LET q == reqs[r] IN
    /\ EndpointRuns(q)
    /\ q.endpoint = "evaluate"
    /\ reqs' = [reqs EXCEPT ![r] =
                  CallService(q, EVALUATE_PROMPT_FILE, file,
                      evaluate_translations(file.text, TranslationsOf(q.body)),
                      "TranslationEvaluationResponse")]

\* Mutant of send_prompt_returns: the response is kept in a slot that all
\* requests share, so every request that waits for the provider is answered
\* with it.
send_prompt_returns_shared(r, reply) ==
    LET result == send_prompt(reply) IN
    /\ reqs[r].pc = "awaiting_provider"
    /\ reqs' = [s \in DOMAIN reqs |->
                  IF reqs[s].pc # "awaiting_provider" THEN reqs[s]
                  ELSE IF result.raised
                  THEN Propagate([reqs[s] EXCEPT !.reply = IF s = r THEN <<reply>> ELSE @])
                  ELSE [reqs[s] EXCEPT !.reply = IF s = r THEN <<reply>> ELSE @,
                                       !.pc = "done", !.status = "ok",
                                       !.payload = result.value]]

\* The provider call ends: send_prompt returns or raises, and so do the
\* service function and the endpoint function.
send_prompt_returns(r, reply) ==
    LET q == reqs[r]
        result == send_prompt(reply)
        answered == [q EXCEPT !.reply = <<reply>>]
    IN
    /\ q.pc = "awaiting_provider"
    /\ reqs' = [reqs EXCEPT ![r] =
                  IF result.raised
                  THEN Propagate(answered)
                  ELSE [answered EXCEPT !.pc = "done", !.status = "ok",
                                        !.payload = result.value]]

(***************************************************************************)
(* The inputs of the request life cycle.                                   *)
(***************************************************************************)
SeqsUpTo(S, n) == UNION {[1..k -> S] : k \in 0..n}

Tokens == {"valid", "missing", "invalid", "expired"}

Endpoints == {"sentences", "evaluate"}

W_book == <<"b", "o", "o", "k">>

W_pen == <<"p", "e", "n">>

S_read == <<"I", " ", "r", "e", "a", "d", ".">>

S_pay == <<"P", "a", "y", " ", "2", ".">>

T_lese == <<"L", "e", "s", "e", ".">>

TestTemplate == <<"W", "o", "r", "d", "s", ":", " ", "$", "{", "w", "o", "r", "d", "s", "}", ",", " ", "C", "o", "u", "n", "t", ":", " ", "$", "{", "n", "}", ",", " ", "L", "a", "n", "g", "u", "a", "g", "e", ":", " ", "$", "{", "t", "a", "r", "g", "e", "t", "L", "a", "n", "g", "u", "a", "g", "e", "}">>

EvalTemplate == <<"E", "v", "a", "l", "u", "a", "t", "e", ":", "\n">>

ListBodies(elements, n) ==
    {[tag |-> "absent", items |-> <<>>], [tag |-> "nonlist", items |-> <<>>]}
      \cup {[tag |-> "list", items |-> xs] : xs \in SeqsUpTo(elements, n)}

WordFields == {StrField(W_book), StrField(W_pen), NonStrField}

ItemOf(word, sentence, translation) ==
    [word |-> word, sentence |-> sentence, translation |-> translation]

ItemFields ==
    {ItemOf(StrField(W_book), StrField(S_read), StrField(T_lese)),
     ItemOf(StrField(W_pen), StrField(S_pay), StrField(T_lese)),
     ItemOf(AbsentField, StrField(S_read), StrField(T_lese)),
     ItemOf(StrField(W_book), AbsentField, StrField(T_lese)),
     ItemOf(StrField(W_book), StrField(S_read), AbsentField),
     ItemOf(StrField(W_book), NonStrField, StrField(T_lese))}

Bodies(endpoint) ==
    IF endpoint = "sentences" THEN ListBodies(WordFields, MaxWords)
    ELSE ListBodies(ItemFields, MaxItems)

Missing == [found |-> FALSE, text |-> <<>>]

File(text) == [found |-> TRUE, text |-> text]

SentencesFiles == {Missing, File(TestTemplate)}

EvaluateFiles == {Missing, File(EvalTemplate)}

\* The content of a choice's message: None or a string of the provider's.
Contents == {<<>>, <<"{\"sentences\": []}">>, <<"not json">>}

Raises == [kind |-> "raise", choices |-> <<>>]

Response(choices) == [kind |-> "response", choices |-> choices]

Replies == {Raises} \cup {Response(cs) : cs \in SeqsUpTo(Contents, MaxChoices)}

\* One request at a time: requests share nothing, so the life cycle of one
\* request is the life cycle of each.
RequestIds == {1}

\* No model value is being encoded or decoded.
WireIdle ==
    [pc |-> "none", model |-> "none", value |-> <<>>, text |-> <<>>,
     decoded |-> <<>>]

Init == reqs = [r \in RequestIds |-> Idle] /\ wire = WireIdle

Arrive ==
    \E r \in RequestIds, endpoint \in Endpoints, token \in Tokens :
        \E body \in Bodies(endpoint) :
            Receive(r, endpoint, token, body) /\ UNCHANGED wire

Authenticate == \E r \in RequestIds : auth_required(r) /\ UNCHANGED wire

Validate == \E r \in RequestIds : validate_body(r) /\ UNCHANGED wire

Sentences ==
    \E r \in RequestIds, file \in SentencesFiles :
        create_practice_sentences(r, file) /\ UNCHANGED wire

Evaluate ==
    \E r \in RequestIds, file \in EvaluateFiles :
        evaluate_translations_endpoint(r, file) /\ UNCHANGED wire

ProviderAnswers ==
    \E r \in RequestIds, reply \in Replies :
        send_prompt_returns(r, reply) /\ UNCHANGED wire

Next ==
    \/ Arrive
    \/ Authenticate
    \/ Validate
    \/ Sentences
    \/ Evaluate
    \/ ProviderAnswers

Spec == Init /\ [][Next]_vars

\* The service under its scheduling: the framework runs every step of a
\* request it has received (the dependency, the validation, the endpoint
\* function), and the provider call eventually returns or raises.  Nothing
\* obliges a request to arrive.
FairSpec ==
    /\ Spec
    /\ WF_vars(Authenticate)
    /\ WF_vars(Validate)
    /\ WF_vars(Sentences)
    /\ WF_vars(Evaluate)
    /\ WF_vars(ProviderAnswers)

(***************************************************************************)
(* Routing: requests arrive with a method and a path, on the registered    *)
(* paths and on the same paths without the /daily-dragon prefix.           *)
(***************************************************************************)
Methods == {"POST", "GET"}

Paths ==
    {SENTENCES_PATH, EVALUATE_PATH,
     "/practice/sentences", "/practice/evaluate-translations"}

\* The bodies a client sends to a path: those of the operation it means.
BodiesAt(path) ==
    IF path \in {SENTENCES_PATH, "/practice/sentences"}
    THEN Bodies("sentences")
    ELSE Bodies("evaluate")

ArriveAt ==
    \E r \in RequestIds, method \in Methods, path \in Paths, token \in Tokens :
        \E body \in BodiesAt(path) :
            Dispatch(r, method, path, token, body) /\ UNCHANGED wire

NextRoute ==
    \/ ArriveAt
    \/ Authenticate
    \/ Validate
    \/ Sentences
    \/ Evaluate
    \/ ProviderAnswers

RouteSpec == Init /\ [][NextRoute]_vars

(***************************************************************************)
(* The claims: a request with a verified token, over every set of claims   *)
(* the token's payload may carry.                                          *)
(***************************************************************************)
ClaimNames == {ClaimName(field) : field \in TokenFields}

\* The value a claim carries: a time for the three time claims, text for
\* the others.
ClaimValue(name) ==
    IF name \in {"auth_time", "exp", "iat"} THEN 1234567890 ELSE "value-of-" \o name

InitToken ==
    \E supplied \in SUBSET ClaimNames, verified \in BOOLEAN, token \in {"valid", "expired"} :
        /\ "email_verified" \notin supplied => verified
        /\ reqs = [r \in RequestIds |->
                     [Idle EXCEPT !.pc = "received", !.endpoint = "sentences",
                                  !.token = token,
                                  !.claims = [name \in supplied |->
                                                IF name = "email_verified"
                                                THEN verified
                                                ELSE ClaimValue(name)],
                                  !.body = [tag |-> "list", items |-> <<>>]]]
        /\ wire = WireIdle

NextToken == \E r \in RequestIds : auth_required(r) /\ UNCHANGED wire

TokenSpec == InitToken /\ [][NextToken]_vars

(***************************************************************************)
(* Concurrency: two requests in flight at once, their steps interleaved in *)
(* every order.  The module-level names of openai_service.py (client,      *)
(* MODEL_NAME, N, TARGET_LANGUAGE, PROMPTS_DIR) are assigned once at       *)
(* import and never again, so they are definitions here and the requests   *)
(* are the only state.                                                     *)
(***************************************************************************)
ConcurrentIds == {1, 2}

ConcurrentTokens == {"valid", "expired"}

ConcurrentBodies(endpoint) ==
    IF endpoint = "sentences"
    THEN {[tag |-> "list", items |-> <<>>],
          [tag |-> "list", items |-> <<StrField(W_book)>>]}
    ELSE {[tag |-> "list", items |->
              <<ItemOf(StrField(W_book), StrField(S_read), StrField(T_lese))>>],
          [tag |-> "list", items |->
              <<ItemOf(StrField(W_pen), StrField(S_pay), StrField(T_lese))>>]}

ConcurrentReplies ==
    {Raises, Response(<<<<"{\"sentences\": []}">>>>), Response(<<<<"not json">>>>)}

InitConcurrent == reqs = [r \in ConcurrentIds |-> Idle] /\ wire = WireIdle

ConcurrentArrive ==
    \E r \in ConcurrentIds, endpoint \in Endpoints, token \in ConcurrentTokens :
        \E body \in ConcurrentBodies(endpoint) :
            Receive(r, endpoint, token, body) /\ UNCHANGED wire

ConcurrentAuthenticate ==
    \E r \in ConcurrentIds : auth_required(r) /\ UNCHANGED wire

ConcurrentValidate ==
    \E r \in ConcurrentIds : validate_body(r) /\ UNCHANGED wire

ConcurrentSentences ==
    \E r \in ConcurrentIds, file \in SentencesFiles :
        create_practice_sentences(r, file) /\ UNCHANGED wire

ConcurrentEvaluate ==
    \E r \in ConcurrentIds, file \in EvaluateFiles :
        evaluate_translations_endpoint(r, file) /\ UNCHANGED wire

ConcurrentProviderAnswers ==
    \E r \in ConcurrentIds, reply \in ConcurrentReplies :
        send_prompt_returns(r, reply) /\ UNCHANGED wire

NextConcurrent ==
    \/ ConcurrentArrive
    \/ ConcurrentAuthenticate
    \/ ConcurrentValidate
    \/ ConcurrentSentences
    \/ ConcurrentEvaluate
    \/ ConcurrentProviderAnswers

ConcurrentSpec == InitConcurrent /\ [][NextConcurrent]_vars

(***************************************************************************)
(* The prompts: a validated request of either route, over word lists and   *)
(* templates that hold placeholder text in every position.                 *)
(***************************************************************************)
W_n == <<"n">>

W_braces == <<"{", "n", "}">>

Vocabulary == {W_book, W_n, W_braces, PH_N, PH_WORDS}

TplPieces == {PH_WORDS, PH_N, PH_LANG, <<"$">>, <<"{", "n", "}">>}

Concat(pieces) == Join(<<>>, pieces)

SplitTemplate == <<"$", "{", "w", "o", "r", "$", "{", "w", "o", "r", "d", "s", "}", "d", "s", "}">>

NestedTemplate == <<"$", "{", "$", "{", "w", "o", "r", "d", "s", "}", "}">>

SentenceTemplates ==
    {Concat(ps) : ps \in SeqsUpTo(TplPieces, MaxTplPieces)}
      \cup {TestTemplate, SplitTemplate, NestedTemplate}

EvaluateTemplates ==
    {EvalTemplate, <<>>, <<"E", "v", "a", "l", " ", "\n", "\t", "\n">>,
     <<" ", "E", "v", "a", "l">>}

PromptItems ==
    {ItemOf(StrField(w), StrField(s), StrField(T_lese)) :
        w \in {W_book, W_n}, s \in {S_read, S_pay}}

PromptBodies(endpoint) ==
    IF endpoint = "sentences"
    THEN {[tag |-> "list", items |-> xs] :
             xs \in SeqsUpTo({StrField(w) : w \in Vocabulary}, MaxWords)}
    ELSE {[tag |-> "list", items |-> xs] : xs \in SeqsUpTo(PromptItems, MaxItems)}

InitPrompt ==
    \E endpoint \in Endpoints :
        \E body \in PromptBodies(endpoint) :
            /\ reqs = [r \in RequestIds |->
                         [Idle EXCEPT !.pc = "validated", !.endpoint = endpoint,
                                      !.token = "valid", !.body = body]]
            /\ wire = WireIdle

PromptSentences ==
    \E r \in RequestIds, text \in SentenceTemplates :
        create_practice_sentences(r, File(text)) /\ UNCHANGED wire

PromptEvaluate ==
    \E r \in RequestIds, text \in EvaluateTemplates :
        evaluate_translations_endpoint(r, File(text)) /\ UNCHANGED wire

PromptProviderAnswers ==
    \E r \in RequestIds :
        send_prompt_returns(r, Response(<<<<"{\"sentences\": []}">>>>))
          /\ UNCHANGED wire

NextPrompt ==
    \/ PromptSentences
    \/ PromptEvaluate
    \/ PromptProviderAnswers

PromptSpec == InitPrompt /\ [][NextPrompt]_vars

(***************************************************************************)
(* models.py and openai_api_app.py: the pydantic models on the wire.       *)
(* model_dump_json writes compact JSON, the fields in declaration order;   *)
(* model_validate_json parses JSON text and validates it against the       *)
(* model's fields.  A JSON value is a record [tag, s, n, items]: a string  *)
(* (s), an integer (n), an array (items) or an object (items, a sequence   *)
(* of [key, val]).                                                         *)
(***************************************************************************)
\* Mutant of EscapeChar: the character is written as it is.
EscapeCharRaw(c) == <<c>>

\* A character inside a JSON string, as the encoder writes it.
EscapeChar(c) ==
    CASE c = "\"" -> <<"\\", "\"">>
      [] c = "\\" -> <<"\\", "\\">>
      [] c = "\n" -> <<"\\", "n">>
      [] c = "\t" -> <<"\\", "t">>
      [] c = "\r" -> <<"\\", "r">>
      [] OTHER -> <<c>>

EncodeString(s) ==
    <<"\"">> \o Join(<<>>, [i \in 1..Len(s) |-> EscapeChar(s[i])]) \o <<"\"">>

EncodeInt(n) == IF n < 0 THEN <<"-">> \o Str(0 - n) ELSE Str(n)

EncodeArray(elements) == <<"[">> \o Join(<<",">>, elements) \o <<"]">>

Member(key, text) == EncodeString(key) \o <<":">> \o text

EncodeObject(members) == <<"{">> \o Join(<<",">>, members) \o <<"}">>

\* The field names of the models.
K_word == <<"w", "o", "r", "d">>

K_sentence == <<"s", "e", "n", "t", "e", "n", "c", "e">>

K_translation == <<"t", "r", "a", "n", "s", "l", "a", "t", "i", "o", "n">>

K_words == <<"w", "o", "r", "d", "s">>

K_target_word == <<"t", "a", "r", "g", "e", "t", "_", "w", "o", "r", "d">>

K_word_used == <<"w", "o", "r", "d", "_", "u", "s", "e", "d">>

K_feedback == <<"f", "e", "e", "d", "b", "a", "c", "k">>

K_correct_sentence == <<"c", "o", "r", "r", "e", "c", "t", "_", "s", "e", "n", "t", "e", "n", "c", "e">>

K_score == <<"s", "c", "o", "r", "e">>

Models == {"SentenceItem", "TranslationEvaluationItem", "WordsList", "TranslationItem"}

\* model_dump_json of a value v of the model.
model_dump_json(model, v) ==
    CASE model = "SentenceItem" ->
           EncodeObject(<<Member(K_word, EncodeString(v.word)),
                          Member(K_sentence, EncodeString(v.sentence))>>)
      [] model = "TranslationItem" ->
           EncodeObject(<<Member(K_word, EncodeString(v.word)),
                          Member(K_sentence, EncodeString(v.sentence)),
                          Member(K_translation, EncodeString(v.translation))>>)
      [] model = "WordsList" ->
           EncodeObject(<<Member(K_words,
               EncodeArray([i \in 1..Len(v.words) |-> EncodeString(v.words[i])]))>>)
      [] model = "TranslationEvaluationItem" ->
           EncodeObject(<<Member(K_sentence, EncodeString(v.sentence)),
                          Member(K_translation, EncodeString(v.translation)),
                          Member(K_target_word, EncodeString(v.target_word)),
                          Member(K_word_used, EncodeString(v.word_used)),
                          Member(K_feedback, EncodeString(v.feedback)),
                          Member(K_correct_sentence, EncodeString(v.correct_sentence)),
                          Member(K_score, EncodeInt(v.score))>>)

\* JSON values, as the parser yields them.
JStr(s) == [tag |-> "str", s |-> s, n |-> 0, items |-> <<>>]

JInt(n) == [tag |-> "int", s |-> <<>>, n |-> n, items |-> <<>>]

JArr(items) == [tag |-> "arr", s |-> <<>>, n |-> 0, items |-> items]

JObj(members) == [tag |-> "obj", s |-> <<>>, n |-> 0, items |-> members]

\* The outcome of parsing from a position: the value and the position after
\* it, or a failure.
Parsed(val, next) == [ok |-> TRUE, val |-> val, next |-> next]

ParseFails == [ok |-> FALSE, val |-> JInt(0), next |-> 0]

JsonWhitespace == {" ", "\n", "\t", "\r"}

JsonDigits == {"0", "1", "2", "3", "4", "5", "6", "7", "8", "9"}

DigitValue(c) == CHOOSE d \in 0..9 : Digit(d) = c

\* The character an escape \c stands for.
Escapes == {"\"", "\\", "/", "n", "t", "r"}

Unescape(c) ==
    CASE c = "n" -> "\n" [] c = "t" -> "\t" [] c = "r" -> "\r" [] OTHER -> c

At(t, p, c) == p <= Len(t) /\ t[p] = c

RECURSIVE SkipWhitespace(_, _)
SkipWhitespace(t, p) ==
    IF p <= Len(t) /\ t[p] \in JsonWhitespace THEN SkipWhitespace(t, p + 1)
    ELSE p

\* The characters of a string, from the position after its opening quote.
RECURSIVE ScanString(_, _, _)
ScanString(t, p, acc) ==
    IF p > Len(t) THEN ParseFails
    ELSE IF t[p] = "\"" THEN Parsed(JStr(acc), p + 1)
    ELSE IF t[p] = "\\"
         THEN IF p + 1 <= Len(t) /\ t[p + 1] \in Escapes
              THEN ScanString(t, p + 2, Append(acc, Unescape(t[p + 1])))
              ELSE ParseFails
    ELSE IF t[p] \in {"\n", "\t", "\r"} THEN ParseFails
    ELSE ScanString(t, p + 1, Append(acc, t[p]))

RECURSIVE ScanDigits(_, _, _)
ScanDigits(t, p, n) ==
    IF p <= Len(t) /\ t[p] \in JsonDigits
    THEN ScanDigits(t, p + 1, 10 * n + DigitValue(t[p]))
    ELSE [n |-> n, next |-> p]

\* An integer: an optional minus sign and digits without a leading zero.
ParseNumber(t, p) ==
    LET negative == At(t, p, "-")
        first == IF negative THEN p + 1 ELSE p
        digits == ScanDigits(t, first, 0)
    IN
    IF first > Len(t) \/ t[first] \notin JsonDigits THEN ParseFails
    ELSE IF t[first] = "0" /\ digits.next > first + 1 THEN ParseFails
    ELSE Parsed(JInt(IF negative THEN 0 - digits.n ELSE digits.n), digits.next)

RECURSIVE ParseValue(_, _)
RECURSIVE ParseElements(_, _, _)
RECURSIVE ParseMembers(_, _, _)

\* The elements of an array after "[" or ",": a value, then "," or "]".
ParseElements(t, p, acc) ==
    LET v == ParseValue(t, p)
        q == SkipWhitespace(t, v.next)
    IN
    IF ~v.ok THEN ParseFails
    ELSE IF At(t, q, ",") THEN ParseElements(t, q + 1, Append(acc, v.val))
    ELSE IF At(t, q, "]") THEN Parsed(JArr(Append(acc, v.val)), q + 1)
    ELSE ParseFails

\* The members of an object after "{" or ",": a key, ":", a value, then ","
\* or "}".
ParseMembers(t, p, acc) ==
    LET k == SkipWhitespace(t, p)
        key == IF At(t, k, "\"") THEN ScanString(t, k + 1, <<>>) ELSE ParseFails
        c == SkipWhitespace(t, key.next)
        v == IF key.ok /\ At(t, c, ":") THEN ParseValue(t, c + 1) ELSE ParseFails
        q == SkipWhitespace(t, v.next)
        member == [key |-> key.val.s, val |-> v.val]
    IN
    IF ~v.ok THEN ParseFails
    ELSE IF At(t, q, ",") THEN ParseMembers(t, q + 1, Append(acc, member))
    ELSE IF At(t, q, "}") THEN Parsed(JObj(Append(acc, member)), q + 1)
    ELSE ParseFails

ParseValue(t, p0) ==
    LET p == SkipWhitespace(t, p0) IN
    IF p > Len(t) THEN ParseFails
    ELSE IF t[p] = "\"" THEN ScanString(t, p + 1, <<>>)
    ELSE IF t[p] = "[" THEN
        IF At(t, SkipWhitespace(t, p + 1), "]")
        THEN Parsed(JArr(<<>>), SkipWhitespace(t, p + 1) + 1)
        ELSE ParseElements(t, p + 1, <<>>)
    ELSE IF t[p] = "{" THEN
        IF At(t, SkipWhitespace(t, p + 1), "}")
        THEN Parsed(JObj(<<>>), SkipWhitespace(t, p + 1) + 1)
        ELSE ParseMembers(t, p + 1, <<>>)
    ELSE ParseNumber(t, p)

\* The whole text is one JSON value.
ParseDocument(t) ==
    LET v == ParseValue(t, 1) IN
    IF v.ok /\ SkipWhitespace(t, v.next) = Len(t) + 1 THEN v ELSE ParseFails

\* The value of the member key of a JSON object, the last one when the key
\* is repeated; none when the object has no such member.
Field(j, key) ==
    LET at == {i \in 1..Len(j.items) : j.items[i].key = key} IN
    IF at = {} THEN <<>>
    ELSE <<j.items[CHOOSE i \in at : \A k \in at : k <= i].val>>

\* A required field of the declared type is there.
HasStr(j, key) == Field(j, key) # <<>> /\ Field(j, key)[1].tag = "str"

HasInt(j, key) == Field(j, key) # <<>> /\ Field(j, key)[1].tag = "int"

HasStrList(j, key) ==
    /\ Field(j, key) # <<>>
    /\ Field(j, key)[1].tag = "arr"
    /\ \A i \in 1..Len(Field(j, key)[1].items) :
         Field(j, key)[1].items[i].tag = "str"

StrAt(j, key) == Field(j, key)[1].s

Valid(v) == [ok |-> TRUE, value |-> <<v>>]

Invalid == [ok |-> FALSE, value |-> <<>>]

\* class SentenceItem(BaseModel)
SentenceItem(j) ==
    IF j.tag = "obj" /\ HasStr(j, K_word) /\ HasStr(j, K_sentence)
    THEN Valid([word |-> StrAt(j, K_word), sentence |-> StrAt(j, K_sentence)])
    ELSE Invalid

\* class TranslationEvaluationItem(BaseModel)
TranslationEvaluationItem(j) ==
    IF /\ j.tag = "obj"
       /\ \A key \in {K_sentence, K_translation, K_target_word, K_word_used,
                      K_feedback, K_correct_sentence} : HasStr(j, key)
       /\ HasInt(j, K_score)
    THEN Valid([sentence |-> StrAt(j, K_sentence),
                translation |-> StrAt(j, K_translation),
                target_word |-> StrAt(j, K_target_word),
                word_used |-> StrAt(j, K_word_used),
                feedback |-> StrAt(j, K_feedback),
                correct_sentence |-> StrAt(j, K_correct_sentence),
                score |-> Field(j, K_score)[1].n])
    ELSE Invalid

\* class WordsList(BaseModel), from JSON text
WordsListFromJson(j) ==
    IF j.tag = "obj" /\ HasStrList(j, K_words)
    THEN Valid([words |-> [i \in 1..Len(Field(j, K_words)[1].items) |->
                              Field(j, K_words)[1].items[i].s]])
    ELSE Invalid

\* class TranslationItem(BaseModel), from JSON text
TranslationItemFromJson(j) ==
    IF /\ j.tag = "obj"
       /\ HasStr(j, K_word) /\ HasStr(j, K_sentence) /\ HasStr(j, K_translation)
    THEN Valid([word |-> StrAt(j, K_word), sentence |-> StrAt(j, K_sentence),
                translation |-> StrAt(j, K_translation)])
    ELSE Invalid

\* model_validate_json of the model on a text.
model_validate_json(model, text) ==
    LET d == ParseDocument(text) IN
    IF ~d.ok THEN Invalid
    ELSE CASE model = "SentenceItem" -> SentenceItem(d.val)
           [] model = "TranslationEvaluationItem" -> TranslationEvaluationItem(d.val)
           [] model = "WordsList" -> WordsListFromJson(d.val)
           [] model = "TranslationItem" -> TranslationItemFromJson(d.val)

\* A value of a model is written to JSON text.
Encode ==
    /\ wire.pc = "built"
    /\ wire' = [wire EXCEPT !.pc = "encoded",
                            !.text = model_dump_json(wire.model, wire.value[1])]
    /\ UNCHANGED reqs

\* The text is read back into the model.
Decode ==
    LET result == model_validate_json(wire.model, wire.text) IN
    /\ wire.pc = "encoded"
    /\ wire' = [wire EXCEPT !.pc = IF result.ok THEN "decoded" ELSE "rejected",
                            !.decoded = result.value]
    /\ UNCHANGED reqs

\* Strings with the characters JSON gives a meaning to.
WireStrings ==
    {<<>>, W_book, <<"\"">>, <<"a", "\\", "n">>, <<"\n", "\\">>,
     <<"}", ",", "\"", ":", " ">>}

Scores == {0, 95, 100, 0 - 7}

WireValues(model) ==
    CASE model = "SentenceItem" ->
           {[word |-> w, sentence |-> s] : w \in WireStrings, s \in WireStrings}
      [] model = "TranslationItem" ->
           {[word |-> w, sentence |-> s, translation |-> t] :
               w \in {W_book, <<"\"">>}, s \in WireStrings, t \in WireStrings}
      [] model = "WordsList" ->
           {[words |-> ws] : ws \in SeqsUpTo(WireStrings, MaxWords)}
      [] model = "TranslationEvaluationItem" ->
           {[sentence |-> s, translation |-> t, target_word |-> W_book,
             word_used |-> t, feedback |-> s, correct_sentence |-> <<"\"">>,
             score |-> n] : s \in WireStrings, t \in WireStrings, n \in Scores}

InitWire ==
    /\ reqs = [r \in RequestIds |-> Idle]
    /\ \E model \in Models :
         \E v \in WireValues(model) :
            wire = [pc |-> "built", model |-> model, value |-> <<v>>,
                    text |-> <<>>, decoded |-> <<>>]

NextWire ==
    \/ Encode
    \/ Decode

WireSpec == InitWire /\ [][NextWire]_vars

(***************************************************************************)
(* What the claims speak of, stated on the request itself and not through  *)
(* the operators above.                                                    *)
(***************************************************************************)
BadTokens == {"missing", "invalid", "expired"}

Calls(q) == Len(q.sent)

\* The body does not have the shape its route declares: the list field is
\* omitted or is no list, or an element lacks a field or has one of the
\* wrong type.
ShapeFails(endpoint, body) ==
    \/ body.tag \in {"absent", "nonlist"}
    \/ /\ endpoint = "sentences"
       /\ \E i \in 1..Len(body.items) : body.items[i].tag # "str"
    \/ /\ endpoint = "evaluate"
       /\ \E i \in 1..Len(body.items) :
            \E f \in {body.items[i].word, body.items[i].sentence,
                      body.items[i].translation} : f.tag # "str"

\* The provider call raised, or its response has no choice to read.
ProviderFailed(q) ==
    /\ q.reply # <<>>
    /\ \/ q.reply[1].kind = "raise"
       \/ q.reply[1].choices = <<>>

\* C1: a request whose bearer token is missing, invalid or expired never
\* loads a template and never invokes the provider, in any state of its
\* life, and ends with an authentication error.
C1_BadTokenRejectedBeforePipeline ==
    \A r \in Requests :
        LET q == reqs[r] IN
        q.token \in BadTokens =>
            /\ q.reads = 0
            /\ Calls(q) = 0
            /\ q.pc \in {"received", "done"}
            /\ q.pc = "done" => q.status = "auth_error" /\ q.payload = <<>>

C1_Witness ==
    \E r \in Requests :
        /\ reqs[r].pc = "done"
        /\ reqs[r].token = "expired"
        /\ reqs[r].endpoint = "evaluate"
        /\ reqs[r].status = "auth_error"
        /\ ~ShapeFails(reqs[r].endpoint, reqs[r].body)

\* C2: a request whose body fails the declared shape never loads a
\* template and never invokes the provider; it ends with a client error,
\* which is the validation error whenever the request passed the Auth Gate
\* (the gate stands in front of the validator and answers first otherwise).
C2_BadShapeRejectedBeforePipeline ==
    \A r \in Requests :
        LET q == reqs[r] IN
        q.pc # "idle" /\ ShapeFails(q.endpoint, q.body) =>
            /\ q.reads = 0
            /\ Calls(q) = 0
            /\ q.template = <<>>
            /\ q.pc = "done" =>
                 /\ q.status \in {"validation_error", "auth_error"}
                 /\ q.token = "valid" => q.status = "validation_error"

C2_Witness ==
    \E r \in Requests :
        /\ reqs[r].pc = "done"
        /\ reqs[r].token = "valid"
        /\ reqs[r].endpoint = "evaluate"
        /\ reqs[r].body.tag = "list"
        /\ Len(reqs[r].body.items) = 2
        /\ reqs[r].body.items[2].sentence.tag = "absent"
        /\ reqs[r].status = "validation_error"

\* C3: no retry: a request invokes the provider at most once in its whole
\* life, and exactly once when it passed authentication, validation and
\* template loading, also when that invocation raised.
C3_ProviderInvokedOnce ==
    \A r \in Requests :
        LET q == reqs[r] IN
        /\ Calls(q) <= 1
        /\ q.reads <= 1
        /\ q.template # <<>> => Calls(q) = 1
        /\ q.pc = "done" /\ ProviderFailed(q) => Calls(q) = 1
        /\ Calls(q) = 1 =>
             q.token = "valid" /\ ~ShapeFails(q.endpoint, q.body)

C3_Witness ==
    \E r \in Requests :
        /\ reqs[r].pc = "done"
        /\ reqs[r].endpoint = "evaluate"
        /\ reqs[r].reply # <<>>
        /\ reqs[r].reply[1].kind = "raise"
        /\ Calls(reqs[r]) = 1

\* C4: when the provider call raises, or its response cannot be read, the
\* request ends as a server error and returns no payload.
C4_ProviderFailureIsServerError ==
    \A r \in Requests :
        LET q == reqs[r] IN
        ProviderFailed(q) =>
            /\ q.pc = "done"
            /\ q.status = "server_error"
            /\ q.payload = <<>>

C4_Witness ==
    \E r \in Requests :
        /\ reqs[r].pc = "done"
        /\ reqs[r].endpoint = "sentences"
        /\ reqs[r].reply # <<>>
        /\ reqs[r].reply[1].kind = "response"
        /\ reqs[r].reply[1].choices = <<>>
        /\ reqs[r].status = "server_error"

\* C5: every completed request either succeeds with a provider payload or
\* fails with an error response and no payload; success without a payload
\* is not an outcome.
C5_SuccessCarriesPayload ==
    \A r \in Requests :
        LET q == reqs[r] IN
        q.pc = "done" =>
            \/ q.status = "ok" /\ q.payload # <<>>
            \/ q.status \in {"auth_error", "validation_error", "server_error"}
                 /\ q.payload = <<>>

\* C6: on success the value returned is the content of the first choice's
\* message of the provider's response, as the provider gave it.
C6_PayloadIsFirstChoiceVerbatim ==
    \A r \in Requests :
        LET q == reqs[r] IN
        q.pc = "done" /\ q.status = "ok" =>
            /\ q.reply # <<>>
            /\ q.reply[1].kind = "response"
            /\ q.payload = q.reply[1].choices[1]

C6_Witness ==
    \E r \in Requests :
        LET q == reqs[r] IN
        /\ q.pc = "done"
        /\ q.status = "ok"
        /\ Len(q.body.items) = 2
        /\ Len(q.reply[1].choices) = 2
        /\ q.reply[1].choices[1] = <<"not json">>
        /\ q.reply[1].choices[2] = <<"{\"sentences\": []}">>
        /\ q.payload = <<"not json">>

(***************************************************************************)
(* The prompts, read back from the provider call of the request.           *)
(***************************************************************************)
Contains(s, sub) ==
    \E i \in 0..(Len(s) - Len(sub)) : SubSeq(s, i + 1, i + Len(sub)) = sub

StartsWith(s, prefix) ==
    Len(prefix) <= Len(s) /\ SubSeq(s, 1, Len(prefix)) = prefix

PromptOf(q) == q.sent[1].messages[1].content

SentencesPrompted(q) == q.endpoint = "sentences" /\ q.sent # <<>>

EvaluatePrompted(q) == q.endpoint = "evaluate" /\ q.sent # <<>>

Placeholders == {PH_WORDS, PH_N, PH_LANG}

\* No word holds a whole placeholder token.
NoPlaceholderText(words) ==
    \A i \in 1..Len(words) : \A ph \in Placeholders : ~Contains(words[i], ph)

\* No word holds the character that opens a placeholder.
DollarFree(words) ==
    \A i \in 1..Len(words) : \A j \in 1..Len(words[i]) : words[i][j] # "$"

\* Every $ of the template is the first character of a placeholder token.
DollarsOpenPlaceholders(t) ==
    \A i \in 1..Len(t) :
        t[i] = "$" =>
            \E ph \in Placeholders :
                /\ i + Len(ph) - 1 <= Len(t)
                /\ SubSeq(t, i, i + Len(ph) - 1) = ph

\* The words joined with ", " in input order.
RECURSIVE CommaJoined(_)
CommaJoined(words) ==
    IF Len(words) = 0 THEN <<>>
    ELSE IF Len(words) = 1 THEN words[1]
    ELSE CommaJoined(SubSeq(words, 1, Len(words) - 1))
           \o <<",", " ">> \o words[Len(words)]

\* The template with every occurrence of a placeholder replaced by its
\* value, in one pass, and all other text unchanged.
RECURSIVE Substituted(_, _)
Substituted(t, joined) ==
    IF t = <<>> THEN <<>>
    ELSE IF StartsWith(t, PH_WORDS)
         THEN joined \o Substituted(SubSeq(t, Len(PH_WORDS) + 1, Len(t)), joined)
    ELSE IF StartsWith(t, PH_N)
         THEN <<"5">> \o Substituted(SubSeq(t, Len(PH_N) + 1, Len(t)), joined)
    ELSE IF StartsWith(t, PH_LANG)
         THEN <<"E", "n", "g", "l", "i", "s", "h">>
                \o Substituted(SubSeq(t, Len(PH_LANG) + 1, Len(t)), joined)
    ELSE <<Head(t)>> \o Substituted(Tail(t), joined)

C8_NoPlaceholderLeft ==
    \A r \in Requests :
        LET q == reqs[r] IN
        SentencesPrompted(q) =>
            \A ph \in Placeholders : ~Contains(PromptOf(q), ph)

\* C8, amended: for every template in which every $ is the first character
\* of one of the three placeholder tokens, and every word list whose words
\* contain no $, none of the three placeholder tokens occurs in the prompt.
C8_NoPlaceholderLeftDollarFree ==
    \A r \in Requests :
        LET q == reqs[r] IN
        /\ SentencesPrompted(q)
        /\ DollarsOpenPlaceholders(q.template[1])
        /\ DollarFree(WordsOf(q.body))
        => \A ph \in Placeholders : ~Contains(PromptOf(q), ph)

C8_Witness ==
    \E r \in Requests :
        LET q == reqs[r] IN
        /\ SentencesPrompted(q)
        /\ q.template = <<PH_LANG \o PH_WORDS>>
        /\ WordsOf(q.body) = <<W_n, W_book>>
        /\ PromptOf(q) = <<"E", "n", "g", "l", "i", "s", "h", "n", ",", " ", "b", "o", "o", "k">>

\* C9, as claimed: for every word list whose words contain no placeholder
\* token, the prompt equals the template with every ${words} replaced by
\* the words joined with ", " in input order, every ${n} by "5" and every
\* ${targetLanguage} by "English", all other text unchanged.
C9_PromptIsSubstitutedTemplate ==
    \A r \in Requests :
        LET q == reqs[r] IN
        SentencesPrompted(q) /\ NoPlaceholderText(WordsOf(q.body)) =>
            PromptOf(q) = Substituted(q.template[1], CommaJoined(WordsOf(q.body)))

\* C9, amended: the same equality, for every word list whose words contain
\* no $ and every template in which every $ is the first character of one
\* of the three placeholder tokens.
C9_PromptIsSubstitutedTemplateDollarFree ==
    \A r \in Requests :
        LET q == reqs[r] IN
        /\ SentencesPrompted(q)
        /\ DollarsOpenPlaceholders(q.template[1])
        /\ DollarFree(WordsOf(q.body))
        => PromptOf(q) = Substituted(q.template[1], CommaJoined(WordsOf(q.body)))

C9_Witness ==
    \E r \in Requests :
        LET q == reqs[r] IN
        /\ SentencesPrompted(q)
        /\ q.template = <<PH_WORDS \o PH_N>>
        /\ WordsOf(q.body) = <<W_book, W_book>>
        /\ PromptOf(q) = <<"b", "o", "o", "k", ",", " ", "b", "o", "o", "k", "5">>

\* The text evaluate_translations appends to the trimmed template.
NumberedBlock(q) ==
    SubSeq(PromptOf(q), Len(Rstrip(q.template[1])) + 1, Len(PromptOf(q)))

\* C10: for a list of k >= 1 translation items the numbered block is made of
\* exactly k item blocks, joined by newlines in input order; the i-th block
\* opens with the index i (1-based, none skipped or repeated) and contains
\* the i-th item's sentence, translation and word as literal substrings.
C10_NumberedBlocks ==
    \A r \in Requests :
        LET q == reqs[r]
            items == TranslationsOf(q.body)
            blocks == ItemBlocks(items)
        IN
        EvaluatePrompted(q) /\ Len(items) >= 1 =>
            /\ Len(blocks) = Len(items)
            /\ NumberedBlock(q) = Join(<<"\n">>, blocks)
            /\ \A i \in 1..Len(items) :
                 /\ StartsWith(blocks[i], Str(i) \o <<".", " ">>)
                 /\ Contains(blocks[i], items[i].sentence)
                 /\ Contains(blocks[i], items[i].translation)
                 /\ Contains(blocks[i], items[i].word)
                 /\ \A j \in 1..Len(items) :
                      j # i => ~StartsWith(blocks[j], Str(i) \o <<".", " ">>)

C10_Witness ==
    \E r \in Requests :
        LET q == reqs[r] IN
        /\ EvaluatePrompted(q)
        /\ Len(q.body.items) = 2
        /\ q.template = <<EvalTemplate>>
        /\ q.body.items[1].word.s = W_n
        /\ q.body.items[2].sentence.s = S_pay
        /\ StartsWith(NumberedBlock(q), <<"1", ".", " ", "S">>)
        /\ Contains(NumberedBlock(q), <<"\"", "\n", "\n", "2", ".", " ", "S">>)

\* The fragment that opens the i-th item's block.
SentenceFragment(i, item) ==
    Str(i) \o <<".", " ", "S", "e", "n", "t", "e", "n", "c", "e", ":", " ", "\"">>
      \o item.sentence \o <<"\"">>

\* The marker of the index i: its digits and a full stop.
IndexMarker(i) == Str(i) \o <<".">>

\* C11, as claimed: for every list of k >= 1 translation items the prompt
\* contains the fragment <i>. Sentence: "<sentence_i>" for each i in 1..k
\* and contains the index marker <k+1>. nowhere.
C11_FragmentsAndNoNextMarker ==
    \A r \in Requests :
        LET q == reqs[r]
            items == TranslationsOf(q.body)
            k == Len(items)
        IN
        EvaluatePrompted(q) /\ k >= 1 =>
            /\ \A i \in 1..k : Contains(PromptOf(q), SentenceFragment(i, items[i]))
            /\ ~Contains(PromptOf(q), IndexMarker(k + 1))

\* The text the caller supplies holds the marker: an item's sentence,
\* translation or word does, or the trimmed template does once the first
\* index is put after it.
MarkerSupplied(q, marker) ==
    \/ Contains(Rstrip(q.template[1]) \o IndexMarker(1), marker)
    \/ \E i \in 1..Len(TranslationsOf(q.body)) :
         LET item == TranslationsOf(q.body)[i] IN
         \/ Contains(item.sentence, marker)
         \/ Contains(item.translation, marker)
         \/ Contains(item.word, marker)

\* C11, amended: the fragments are in the prompt for each i in 1..k, and the
\* marker <k+1>. is in the prompt only when the template or an item's own
\* text supplies it.
C11_FragmentsAndNoNextMarkerOfItsOwn ==
    \A r \in Requests :
        LET q == reqs[r]
            items == TranslationsOf(q.body)
            k == Len(items)
        IN
        EvaluatePrompted(q) /\ k >= 1 =>
            /\ \A i \in 1..k : Contains(PromptOf(q), SentenceFragment(i, items[i]))
            /\ ~MarkerSupplied(q, IndexMarker(k + 1))
                 => ~Contains(PromptOf(q), IndexMarker(k + 1))

C11_Witness ==
    \E r \in Requests :
        LET q == reqs[r] IN
        /\ EvaluatePrompted(q)
        /\ Len(q.body.items) = 1
        /\ q.body.items[1].sentence.s = S_read
        /\ q.template = <<EvalTemplate>>
        /\ Contains(PromptOf(q), <<"1", ".", " ", "S", "e", "n", "t", "e", "n", "c", "e", ":", " ", "\"", "I", " ", "r", "e", "a", "d", ".", "\"">>)
        /\ ~Contains(PromptOf(q), <<"2", ".">>)

\* The request tried to load its template and did not get it.
TemplateNotLoaded(q) == q.reads >= 1 /\ q.template = <<>>

\* C12: if the prompt template cannot be loaded, the request fails with a
\* server error, the load was attempted only once, and the provider is never
\* invoked for that request.
C12_TemplateFailureIsFatal ==
    \A r \in Requests :
        LET q == reqs[r] IN
        TemplateNotLoaded(q) =>
            /\ q.pc = "done"
            /\ q.status = "server_error"
            /\ q.payload = <<>>
            /\ q.reads = 1
            /\ Calls(q) = 0
            /\ q.reply = <<>>

C12_Witness ==
    \E r \in Requests :
        LET q == reqs[r] IN
        /\ TemplateNotLoaded(q)
        /\ q.endpoint = "evaluate"
        /\ Len(q.body.items) = 2
        /\ q.status = "server_error"

\* The prompt the request's service function assembles from the template it
\* read and the request's own body.
AssembledPrompt(q) ==
    IF q.endpoint = "sentences"
    THEN get_sentences_for_translation(q.template[1], WordsOf(q.body))
    ELSE evaluate_translations(q.template[1], TranslationsOf(q.body))

\* C13: every provider invocation uses the model "gpt-4o-2024-08-06" and a
\* message list of exactly one message, whose role is "user" and whose
\* content is exactly the assembled prompt, whatever the prompt and the
\* schema.
C13_OneUserMessageFixedModel ==
    \A r \in Requests :
        LET q == reqs[r] IN
        \A c \in 1..Len(q.sent) :
            /\ q.sent[c].model = "gpt-4o-2024-08-06"
            /\ Len(q.sent[c].messages) = 1
            /\ q.sent[c].messages[1].role = "user"
            /\ q.sent[c].messages[1].content = AssembledPrompt(q)
            /\ DOMAIN q.sent[c] = {"model", "messages", "response_format"}

C13_Witness ==
    \E r \in Requests :
        LET q == reqs[r] IN
        /\ Len(q.sent) = 1
        /\ q.endpoint = "evaluate"
        /\ q.sent[1].response_format = "TranslationEvaluationResponse"
        /\ q.sent[1].model = "gpt-4o-2024-08-06"
        /\ Len(q.sent[1].messages) = 1
        /\ Len(q.sent[1].messages[1].content) > Len(q.template[1])

\* C14: the requested output schema and the template always match the
\* pipeline: every provider call made for the sentences endpoint requests
\* SentencesResponse with the sentence-generation template, every call made
\* for the evaluate-translations endpoint requests
\* TranslationEvaluationResponse with the translation-evaluation template,
\* and the two are never crossed.
C14_SchemaAndTemplateMatchPipeline ==
    \A r \in Requests :
        LET q == reqs[r] IN
        /\ q.reads >= 1 =>
             q.prompt_file = IF q.endpoint = "sentences"
                             THEN "get_sentences_for_translation"
                             ELSE "evaluate_translations"
        /\ \A c \in 1..Len(q.sent) :
             q.sent[c].response_format = IF q.endpoint = "sentences"
                                         THEN "SentencesResponse"
                                         ELSE "TranslationEvaluationResponse"

C14_Witness ==
    \E r \in Requests :
        LET q == reqs[r] IN
        /\ q.endpoint = "evaluate"
        /\ q.pc = "done"
        /\ q.status = "ok"
        /\ q.prompt_file = "evaluate_translations"
        /\ Len(q.sent) = 1
        /\ q.sent[1].response_format = "TranslationEvaluationResponse"

\* C15: for every SentenceItem, TranslationEvaluationItem, WordsList and
\* TranslationItem value, encoding it to JSON text and decoding the text
\* yields a value equal to the original, list order and every field
\* preserved.
C15_JsonRoundTrip ==
    wire.pc \in {"decoded", "rejected"} =>
        /\ wire.pc = "decoded"
        /\ wire.decoded = wire.value

C15_Witness ==
    /\ wire.pc = "decoded"
    /\ wire.model = "WordsList"
    /\ wire.value = <<[words |-> <<<<"\"">>, W_book>>]>>
    /\ wire.text = <<"{", "\"", "w", "o", "r", "d", "s", "\"", ":", "[", "\"", "\\", "\"", "\"", ",", "\"", "b", "o", "o", "k", "\"", "]", "}">>
    /\ wire.decoded[1].words[2] = W_book

\* The request was answered after its pipeline ran: the service function of
\* the named prompt file was entered.
ReachedPipeline(q, prompt_file) ==
    q.reads = 1 /\ q.prompt_file = prompt_file

\* A finished POST with a valid token and a body valid for the operation.
ValidPost(q, path) ==
    /\ q.pc = "done"
    /\ q.method = "POST"
    /\ q.path = path
    /\ q.token = "valid"
    /\ IF path \in {SENTENCES_PATH, "/practice/sentences"}
       THEN WordsList(q.body)
       ELSE SentenceTranslationsToEvaluate(q.body)

\* C16, as claimed: a POST with a valid token and a valid body to
\* /practice/sentences reaches the sentence-generation pipeline, and one to
\* /practice/evaluate-translations reaches the translation-evaluation
\* pipeline.
C16_ServedAtPracticePaths ==
    \A r \in Requests :
        LET q == reqs[r] IN
        /\ ValidPost(q, "/practice/sentences")
             => ReachedPipeline(q, "get_sentences_for_translation")
        /\ ValidPost(q, "/practice/evaluate-translations")
             => ReachedPipeline(q, "evaluate_translations")

\* C16, amended: a POST with a valid token and a valid body to
\* /daily-dragon/practice/sentences reaches the sentence-generation
\* pipeline, and one to /daily-dragon/practice/evaluate-translations reaches
\* the translation-evaluation pipeline.
C16_ServedAtDailyDragonPaths ==
    \A r \in Requests :
        LET q == reqs[r] IN
        /\ ValidPost(q, "/daily-dragon/practice/sentences")
             => ReachedPipeline(q, "get_sentences_for_translation")
        /\ ValidPost(q, "/daily-dragon/practice/evaluate-translations")
             => ReachedPipeline(q, "evaluate_translations")

C16_Witness ==
    \E r \in Requests :
        LET q == reqs[r] IN
        /\ ValidPost(q, "/daily-dragon/practice/evaluate-translations")
        /\ Len(q.body.items) = 1
        /\ q.status = "ok"
        /\ ReachedPipeline(q, "evaluate_translations")

\* The claim a field of the decoded token is read from.
ClaimOf(field) ==
    CASE field = "cognito_username" -> "cognito:username" [] OTHER -> field

\* C17: the decoded token can be built from a payload with any subset of
\* the claims, none included: every field whose claim is not supplied is
\* None, except email_verified, which is False whenever it is unset,
\* whatever other claims are supplied.
C17_UnsetFieldsAreNoneEmailVerifiedFalse ==
    \A r \in Requests :
        LET q == reqs[r] IN
        q.token = "valid" /\ q.pc # "received" =>
            /\ Len(q.auth) = 1
            /\ DOMAIN q.auth[1] =
                 {"aud", "auth_time", "cognito_username", "email",
                  "email_verified", "event_id", "exp", "iat", "iss", "jti",
                  "origin_jti", "sub", "token_use"}
            /\ \A field \in DOMAIN q.auth[1] :
                 IF ClaimOf(field) \in DOMAIN q.claims
                 THEN q.auth[1][field] = <<q.claims[ClaimOf(field)]>>
                 ELSE IF field = "email_verified"
                      THEN q.auth[1][field] = <<FALSE>>
                      ELSE q.auth[1][field] = <<>>

C17_Witness ==
    \E r \in Requests :
        LET q == reqs[r] IN
        /\ q.pc = "authenticated"
        /\ DOMAIN q.claims = {"email", "cognito:username"}
        /\ q.auth[1]["email_verified"] = <<FALSE>>
        /\ q.auth[1]["cognito_username"] = <<"value-of-cognito:username">>
        /\ q.auth[1]["aud"] = <<>>

\* The text without its trailing whitespace: the prefix that ends at the
\* last character that is not whitespace.
TrimEnd(s) ==
    LET solid == {n \in 1..Len(s) : s[n] \notin {" ", "\n", "\t", "\r"}} IN
    IF solid = {} THEN <<>>
    ELSE SubSeq(s, 1, CHOOSE n \in solid : \A m \in solid : m <= n)

\* A line: its text and the newline that ends it.
Line(text) == text \o <<"\n">>

\* The three lines of the item of rank i.
ThreeLines(i, item) ==
    Line(Str(i) \o <<".", " ", "S", "e", "n", "t", "e", "n", "c", "e", ":", " ", "\"">>
           \o item.sentence \o <<"\"">>)
      \o Line(<<"U", "s", "e", "r", " ", "T", "r", "a", "n", "s", "l", "a", "t", "i", "o", "n", ":", " ", "\"">>
                \o item.translation \o <<"\"">>)
      \o Line(<<"T", "a", "r", "g", "e", "t", " ", "W", "o", "r", "d", ":", " ", "\"">>
                \o item.word \o <<"\"">>)

\* The blocks of the items from rank i on, a newline between one block and
\* the next.
RECURSIVE BlocksFrom(_, _)
BlocksFrom(items, i) ==
    IF i > Len(items) THEN <<>>
    ELSE IF i = Len(items) THEN ThreeLines(i, items[i])
    ELSE ThreeLines(i, items[i]) \o <<"\n">> \o BlocksFrom(items, i + 1)

\* C18: for every translation-item list, the prompt evaluate_translations
\* sends is exactly the template text with its trailing whitespace trimmed,
\* immediately followed by the numbered blocks joined by newlines, the block
\* of item i being exactly the three lines <i>. Sentence: "<sentence>",
\* User Translation: "<translation>", Target Word: "<word>"; nothing else
\* is added and the template text is not altered apart from the trim.
C18_PromptIsTrimmedTemplateThenBlocks ==
    \A r \in Requests :
        LET q == reqs[r] IN
        EvaluatePrompted(q) =>
            PromptOf(q) = TrimEnd(q.template[1]) \o BlocksFrom(TranslationsOf(q.body), 1)

C18_Witness ==
    \E r \in Requests :
        LET q == reqs[r] IN
        /\ EvaluatePrompted(q)
        /\ q.template = <<<<"E", "v", "a", "l", " ", "\n", "\t", "\n">>>>
        /\ Len(q.body.items) = 2
        /\ q.body.items[1].word.s = W_n
        /\ q.body.items[1].sentence.s = S_read
        /\ q.body.items[2].word.s = W_book
        /\ q.body.items[2].sentence.s = S_read
        /\ PromptOf(q) =
             <<"E", "v", "a", "l",
               "1", ".", " ", "S", "e", "n", "t", "e", "n", "c", "e", ":", " ", "\"", "I", " ", "r", "e", "a", "d", ".", "\"", "\n",
               "U", "s", "e", "r", " ", "T", "r", "a", "n", "s", "l", "a", "t", "i", "o", "n", ":", " ", "\"", "L", "e", "s", "e", ".", "\"", "\n",
               "T", "a", "r", "g", "e", "t", " ", "W", "o", "r", "d", ":", " ", "\"", "n", "\"", "\n",
               "\n",
               "2", ".", " ", "S", "e", "n", "t", "e", "n", "c", "e", ":", " ", "\"", "I", " ", "r", "e", "a", "d", ".", "\"", "\n",
               "U", "s", "e", "r", " ", "T", "r", "a", "n", "s", "l", "a", "t", "i", "o", "n", ":", " ", "\"", "L", "e", "s", "e", ".", "\"", "\n",
               "T", "a", "r", "g", "e", "t", " ", "W", "o", "r", "d", ":", " ", "\"", "b", "o", "o", "k", "\"", "\n">>

\* What a request sent and returned comes from its own body, the template
\* it read and the reply to its own call.
OwnInputsOnly(q) ==
    /\ q.sent # <<>> =>
         /\ Len(q.sent) = 1
         /\ PromptOf(q) = AssembledPrompt(q)
    /\ q.pc = "done" /\ q.status = "ok" =>
         /\ q.reply # <<>>
         /\ q.reply[1].kind = "response"
         /\ q.payload = q.reply[1].choices[1]
    /\ q.reply # <<>> => q.sent # <<>>

\* A step is the step of one request: it leaves every other request as it
\* was.
OneRequestSteps ==
    \E r \in Requests : \A s \in Requests \ {r} : reqs'[s] = reqs[s]

\* C19: under every interleaving of concurrently handled requests the
\* requests do not interfere: the prompt sent for a request and the
\* response returned for it depend only on that request's own body, the
\* template text and the provider's reply to that request's own call, and
\* no step of a request writes state of another.
C19_RequestsDoNotInterfere ==
    /\ [](\A r \in Requests : OwnInputsOnly(reqs[r]))
    /\ [][OneRequestSteps]_vars

C19_Witness ==
    /\ Requests = {1, 2}
    /\ reqs[1].endpoint = "sentences"
    /\ reqs[2].endpoint = "evaluate"
    /\ reqs[1].pc = "done" /\ reqs[1].status = "ok"
    /\ reqs[2].pc = "done" /\ reqs[2].status = "ok"
    /\ reqs[1].payload = <<"not json">>
    /\ reqs[2].payload = <<"{\"sentences\": []}">>
    /\ PromptOf(reqs[1]) # PromptOf(reqs[2])

\* A request to the sentences route whose body is {"words": []}, sent with
\* a valid token.
EmptyWordList(q) ==
    /\ q.endpoint = "sentences"
    /\ q.token = "valid"
    /\ q.body = [tag |-> "list", items |-> <<>>]

\* C20: an empty word list is a valid request: WordsList accepts words = [],
\* and get_sentences_for_translation on the empty list still assembles a
\* prompt, invokes the provider exactly once and returns the provider's
\* payload unchanged; it neither short-circuits nor fails.
C20_EmptyWordListIsServed ==
    \A r \in Requests :
        LET q == reqs[r] IN
        EmptyWordList(q) =>
            /\ q.status # "validation_error"
            /\ q.pc = "done" /\ q.template # <<>> =>
                 /\ Calls(q) = 1
                 /\ q.reads = 1
                 /\ PromptOf(q) =
                      Replace(Replace(Replace(q.template[1], PH_WORDS, <<>>),
                                      PH_N, <<"5">>),
                              PH_LANG, <<"E", "n", "g", "l", "i", "s", "h">>)
                 /\ q.reply[1].kind = "response" /\ q.reply[1].choices # <<>> =>
                      /\ q.status = "ok"
                      /\ q.payload = q.reply[1].choices[1]
            /\ q.pc = "done" /\ q.status = "ok" => Calls(q) = 1

C20_Witness ==
    \E r \in Requests :
        LET q == reqs[r] IN
        /\ EmptyWordList(q)
        /\ q.pc = "done"
        /\ q.status = "ok"
        /\ Calls(q) = 1
        /\ PromptOf(q) = <<"W", "o", "r", "d", "s", ":", " ", ",", " ", "C", "o", "u", "n", "t", ":", " ", "5", ",", " ", "L", "a", "n", "g", "u", "a", "g", "e", ":", " ", "E", "n", "g", "l", "i", "s", "h">>
        /\ q.payload = <<"{\"sentences\": []}">>

\* The responses a request can end with.
Responses == {"ok", "auth_error", "validation_error", "server_error"}

\* A finished request carries one response, and one that made no provider
\* call saw no provider step.
CompletedWell(q) ==
    q.pc = "done" =>
        /\ q.status \in Responses
        /\ q.sent = <<>> => q.reply = <<>>
        /\ q.sent # <<>> => Len(q.sent) = 1 /\ Len(q.reply) = 1

\* C21: every request to either endpoint eventually completes with exactly
\* one response, success or error, given that the provider call it makes
\* eventually returns or raises; once it has its response nothing of it
\* changes again, and a request that never reaches the provider (auth,
\* validation or template failure) completes without any provider step.
C21_EveryRequestCompletesOnce ==
    /\ \A r \in RequestIds : (reqs[r].pc # "idle") ~> (reqs[r].pc = "done")
    /\ [](\A r \in RequestIds : CompletedWell(reqs[r]))
    /\ [][\A r \in RequestIds : reqs[r].pc = "done" => reqs'[r] = reqs[r]]_vars

C21_Witness ==
    \E r \in Requests :
        LET q == reqs[r] IN
        /\ q.pc = "done"
        /\ q.endpoint = "evaluate"
        /\ q.status = "server_error"
        /\ Len(q.sent) = 1
        /\ q.reply = <<Response(<<>>)>>

====
